---------------------------- MODULE Spec2Model ----------------------------
(***************************************************************************)
(* A model of the value algebra (src/src/value/mod.rs) and of mixin        *)
(* binding and replay (src/src/atrule/mixin.rs) of the grass Sass          *)
(* compiler.                                                               *)
(*                                                                         *)
(* Values are records tagged by the field k, named after the variants of   *)
(* enum Value.  Text is a sequence of one-character strings, so that       *)
(* concatenation and the inspection of characters are computed.  A         *)
(* SassResult is a record tagged by the field tag:                         *)
(*   "ok"    the Ok variant (field v: a Value, b: a bool, s: a text),      *)
(*   "err"   the Err variant (field msg: the message text),                *)
(*   "panic" the thread panicked (todo!(), unreachable!()),                *)
(*   "exit"  std::process::exit(1) was called.                             *)
(***************************************************************************)
EXTENDS Integers, Sequences, FiniteSets, TLC

VARIABLES
    val,        \* value spec: the Value an operation is applied to (self)
    other,      \* value spec: the second operand (other), or NoValue
    opn,        \* value spec: the last operation applied, "init" before any
    cop,        \* value spec: the Op handed to cmp, "none" otherwise
    out,        \* value spec: what the last operation returned
    mixin,      \* mixin spec: the Mixin {scope, args, body}
    callArgs,   \* mixin spec: the CallArgs of the pending call
    superSel,   \* mixin spec: the super_selector of the call site
    mopn,       \* mixin spec: the last operation applied
    mout,       \* mixin spec: what the last operation returned
    callerScope,\* include spec: the variables of the Scope handed to eat_include
    included,   \* include spec: the includes made so far, with what each returned
    toks,       \* declaration spec: the token stream handed to decl_from_tokens
    decl        \* declaration spec: what decl_from_tokens returned

vars == <<val, other, opn, cop, out, mixin, callArgs, superSel, mopn, mout,
          callerScope, included, toks, decl>>
valueVars == <<val, other, opn, cop, out>>
mixinVars == <<mixin, callArgs, superSel, mopn, mout, callerScope, included, toks, decl>>
includeVars == <<callerScope, included>>
declVars == <<toks, decl>>

----------------------------------------------------------------------------
(* Bounds of the model.                                                    *)

\* Unitless magnitudes of the inputs range over 0..MaxNum.
MaxNum == 2

\* Lists and argument lists of the inputs hold at most MaxList items.
MaxList == 2

\* A mixin declares at most MaxParams parameters.
MaxParams == 2

\* A mixin body holds at most MaxBody tokens before its closing brace.
MaxBody == 3

\* At most MaxIncludes @include statements are evaluated in a row.
MaxIncludes == 2

\* The stream handed to decl_from_tokens holds at most MaxToks tokens after
\* the opening brace of the body.
MaxToks == 5

----------------------------------------------------------------------------
(* SassResult<T>                                                           *)

Ok(v) == [tag |-> "ok", v |-> v]
OkB(b) == [tag |-> "ok", b |-> b]
OkS(s) == [tag |-> "ok", s |-> s]
Err(m) == [tag |-> "err", msg |-> m]
Panic(why) == [tag |-> "panic", why |-> why]
Exit == [tag |-> "exit"]
NoResult == [tag |-> "none"]

IsOk(r) == r.tag = "ok"

----------------------------------------------------------------------------
(* Number: an arbitrary-precision rational, kept normalised (den > 0,      *)
(* gcd(num, den) = 1) so that structural equality is numeric equality.     *)

Abs(i) == IF i < 0 THEN -i ELSE i

RECURSIVE Gcd(_, _)
Gcd(a, b) == IF b = 0 THEN a ELSE Gcd(b, a % b)

Number(n, d) ==
    LET g == Gcd(Abs(n), Abs(d))
        s == IF d < 0 THEN -1 ELSE 1
    IN  [num |-> (s * n) \div g, den |-> (s * d) \div g]

Int2Num(i) == [num |-> i, den |-> 1]
NumAdd(a, b) == Number(a.num * b.den + b.num * a.den, a.den * b.den)
NumSub(a, b) == Number(a.num * b.den - b.num * a.den, a.den * b.den)
NumMul(a, b) == Number(a.num * b.num, a.den * b.den)
NumDiv(a, b) == Number(a.num * b.den, a.den * b.num)
NumNeg(a) == [num |-> -a.num, den |-> a.den]
NumIsZero(a) == a.num = 0
\* a - b * floor(a / b)
NumRem(a, b) ==
    LET q == (a.num * b.den) \div (a.den * b.num)
    IN  NumSub(a, NumMul(b, Int2Num(q)))

\* Ord::cmp on Number: std::cmp::Ordering
NumCmp(a, b) ==
    LET x == a.num * b.den
        y == b.num * a.den
    IN  IF x < y THEN "Less" ELSE IF x = y THEN "Equal" ELSE "Greater"

Digit(d) ==
    CASE d = 0 -> "0" [] d = 1 -> "1" [] d = 2 -> "2" [] d = 3 -> "3"
      [] d = 4 -> "4" [] d = 5 -> "5" [] d = 6 -> "6" [] d = 7 -> "7"
      [] d = 8 -> "8" [] OTHER -> "9"

RECURSIVE NatChars(_)
NatChars(n) == IF n < 10 THEN <<Digit(n)>> ELSE NatChars(n \div 10) \o <<Digit(n % 10)>>

\* The decimal digits of rem/den, at most `left` of them, none after the
\* expansion ends.
RECURSIVE FracChars(_, _, _)
FracChars(rem, den, left) ==
    IF rem = 0 \/ left = 0 THEN <<>>
    ELSE <<Digit((rem * 10) \div den)>> \o FracChars((rem * 10) % den, den, left - 1)

\* Display for Number
NumChars(a) ==
    LET m == Abs(a.num)
        whole == m \div a.den
        frac == FracChars(m % a.den, a.den, 10)
    IN  (IF a.num < 0 THEN <<"-">> ELSE <<>>)
        \o NatChars(whole)
        \o (IF frac = <<>> THEN <<>> ELSE <<".">> \o frac)

----------------------------------------------------------------------------
(* Unit: None | Known(name) | Mul(units) | Div(num, den)                    *)

UnitNone == [u |-> "None"]
Known(name) == [u |-> "Known", name |-> name]
UnitMul(us) == [u |-> "Mul", units |-> us]
UnitDiv(n, d) == [u |-> "Div", numer |-> n, denom |-> d]

\* UNIT_CONVERSION_TABLE[a][b]: the factor that takes a magnitude in unit b
\* to unit a.  Lengths mm and cm convert; s (seconds) converts with neither.
HasFactor(a, b) ==
    /\ a.u = "Known" /\ b.u = "Known"
    /\ <<a.name, b.name>> \in {<<"mm", "mm">>, <<"cm", "cm">>, <<"mm", "cm">>,
                                <<"cm", "mm">>, <<"s", "s">>}

UNIT_CONVERSION_TABLE(a, b) ==
    CASE a.name = "mm" /\ b.name = "cm" -> Number(10, 1)
      [] a.name = "cm" /\ b.name = "mm" -> Number(1, 10)
      [] OTHER -> Number(1, 1)

\* Unit::comparable
comparable(a, b) ==
    \/ HasFactor(a, b)
    \/ (a = UnitNone /\ b = UnitNone)
    \/ a = b

RECURSIVE UnitChars(_)
RECURSIVE UnitsChars(_, _)
UnitsChars(us, sep) ==
    IF us = <<>> THEN <<>>
    ELSE UnitChars(Head(us))
         \o (IF Len(us) > 1 THEN sep ELSE <<>>)
         \o UnitsChars(Tail(us), sep)

\* Display for Unit
UnitChars(a) ==
    CASE a.u = "None" -> <<>>
      [] a.u = "Known" ->
            (CASE a.name = "mm" -> <<"m", "m">>
               [] a.name = "cm" -> <<"c", "m">>
               [] OTHER -> <<"s">>)
      [] a.u = "Mul" -> UnitsChars(a.units, <<"*">>)
      [] OTHER -> UnitChars(a.numer) \o <<"/">> \o UnitChars(a.denom)

----------------------------------------------------------------------------
(* enum Value, enum Op, enum QuoteKind, enum ListSeparator, enum Brackets  *)

Important == [k |-> "Important"]
True == [k |-> "True"]
False == [k |-> "False"]
Null == [k |-> "Null"]
Dimension(n, u) == [k |-> "Dimension", num |-> n, unit |-> u]
List(vals, sep, brackets) == [k |-> "List", vals |-> vals, sep |-> sep, brackets |-> brackets]
Color(name) == [k |-> "Color", name |-> name]
UnaryOp(op, v) == [k |-> "UnaryOp", op |-> op, val |-> v]
BinaryOp(l, op, r) == [k |-> "BinaryOp", lhs |-> l, op |-> op, rhs |-> r]
Paren(v) == [k |-> "Paren", inner |-> v]
Ident(s, q) == [k |-> "Ident", s |-> s, q |-> q]
Map(entries) == [k |-> "Map", entries |-> entries]
ArgList(vals) == [k |-> "ArgList", vals |-> vals]
Function(name) == [k |-> "Function", name |-> name]
NoValue == [k |-> "NoValue"]

IsExpr(v) == v.k \in {"BinaryOp", "Paren", "UnaryOp"}

CmpOps == {"GreaterThan", "GreaterThanEqual", "LessThan", "LessThanEqual"}
Ops == {"Plus", "Minus", "Equal", "NotEqual", "Mul", "Div", "Rem", "Not", "And", "Or"}
         \cup CmpOps

\* Op::precedence
precedence(op) ==
    CASE op = "Or" -> 0
      [] op = "And" -> 1
      [] op = "Not" -> 2
      [] op \in {"Equal", "NotEqual"} -> 3
      [] op \in CmpOps -> 4
      [] op \in {"Plus", "Minus"} -> 5
      [] OTHER -> 6

\* Display for Op
OpChars(op) ==
    CASE op = "Plus" -> <<"+">>
      [] op = "Minus" -> <<"-">>
      [] op = "Equal" -> <<"=", "=">>
      [] op = "NotEqual" -> <<"!", "=">>
      [] op = "Mul" -> <<"*">>
      [] op = "Div" -> <<"/">>
      [] op = "Rem" -> <<"%">>
      [] op = "GreaterThan" -> <<">">>
      [] op = "GreaterThanEqual" -> <<">", "=">>
      [] op = "LessThan" -> <<"<">>
      [] op = "LessThanEqual" -> <<"<", "=">>
      [] op = "Not" -> <<"n", "o", "t">>
      [] op = "And" -> <<"a", "n", "d">>
      [] OTHER -> <<"o", "r">>

\* ListSeparator::as_str
SepChars(sep) == IF sep = "Comma" THEN <<",", " ">> ELSE <<" ">>

\* Value::bool
bool(b) == IF b THEN True ELSE False

\* is_null without the arm for the empty unquoted identifier.
is_null_only_null(v) == v = Null

\* Value::is_null
is_null(v) ==
    CASE v = Null -> TRUE
      [] v.k = "Ident" /\ v.q = "None" /\ v.s = <<>> -> TRUE
      [] OTHER -> FALSE

\* Value::unquote
unquote(v) == IF v.k = "Ident" THEN Ident(v.s, "None") ELSE v

Contains(s, c) == \E i \in 1..Len(s) : s[i] = c

\* The loop of Display for Ident that escapes the quote character.
RECURSIVE EscapeChars(_, _)
EscapeChars(s, quote_char) ==
    IF s = <<>> THEN <<>>
    ELSE (IF Head(s) = quote_char THEN <<"\\", quote_char>> ELSE <<Head(s)>>)
         \o EscapeChars(Tail(s), quote_char)

RECURSIVE Join(_, _)
Join(strs, sep) ==
    IF strs = <<>> THEN <<>>
    ELSE IF Len(strs) = 1 THEN Head(strs)
    ELSE Head(strs) \o sep \o Join(Tail(strs), sep)

\* vals.iter().filter(|x| !x.is_null())
RECURSIVE FilterNotNull(_)
FilterNotNull(vals) ==
    IF vals = <<>> THEN <<>>
    ELSE (IF is_null(Head(vals)) THEN <<>> ELSE <<Head(vals)>>)
         \o FilterNotNull(Tail(vals))

\* Display, eval, is_true and cmp call one another: each call goes through
\* Apply, which is defined after them and dispatches on the function's name.
RECURSIVE Apply(_, _, _, _)
call_Display(v) == Apply("Display", v, NoValue, "none")
call_eval(v) == Apply("eval", v, NoValue, "none")
call_is_true(v) == Apply("is_true", v, NoValue, "none")
call_cmp(self, o, op) == Apply("cmp", self, o, op)

\* .map(ToString::to_string).collect::<Vec<String>>(): the displayed items,
\* or the first result that is not a text.
RECURSIVE DisplayAll(_)
DisplayAll(vals) ==
    IF vals = <<>> THEN OkS(<<>>)
    ELSE LET d == call_Display(Head(vals))
         IN  IF ~IsOk(d) THEN d
             ELSE LET rest == DisplayAll(Tail(vals))
                  IN  IF ~IsOk(rest) THEN rest ELSE OkS(<<d.s>> \o rest.s)

\* Display for Value: the text written, or the way the process ended.
Display(v) ==
    CASE v.k = "Important" ->
            OkS(<<"!", "i", "m", "p", "o", "r", "t", "a", "n", "t">>)
      [] v.k = "Dimension" ->
            IF v.unit.u = "Mul" THEN Exit
            ELSE OkS(NumChars(v.num) \o UnitChars(v.unit))
      [] v.k = "Map" ->
            LET ks == DisplayAll([i \in 1..Len(v.entries) |-> v.entries[i][1]])
                vs == DisplayAll([i \in 1..Len(v.entries) |-> v.entries[i][2]])
            IN  IF ~IsOk(ks) THEN ks
                ELSE IF ~IsOk(vs) THEN vs
                ELSE OkS(<<"(">>
                         \o Join([i \in 1..Len(v.entries) |-> ks.s[i] \o <<":", " ">> \o vs.s[i]],
                                 <<",", " ">>)
                         \o <<")">>)
      [] v.k = "Function" ->
            OkS(<<"g", "e", "t", "-", "f", "u", "n", "c", "t", "i", "o", "n", "(", "\"">>
                \o v.name \o <<"\"", ")">>)
      [] v.k = "List" ->
            LET items == DisplayAll(FilterNotNull(v.vals))
            IN  IF ~IsOk(items) THEN items
                ELSE IF v.brackets = "None" THEN OkS(Join(items.s, SepChars(v.sep)))
                ELSE OkS(<<"[">> \o Join(items.s, SepChars(v.sep)) \o <<"]">>)
      [] v.k = "Color" -> OkS(v.name)
      [] v.k \in {"UnaryOp", "BinaryOp"} ->
            LET e == call_eval(v)
            IN  IF IsOk(e) THEN call_Display(e.v)
                ELSE IF e.tag = "err" THEN Exit
                ELSE e
      [] v.k = "Paren" -> call_Display(v.inner)
      [] v.k = "Ident" ->
            IF v.q = "None" THEN OkS(v.s)
            ELSE LET has_single_quotes == Contains(v.s, "'")
                     has_double_quotes == Contains(v.s, "\"")
                 IN  IF has_single_quotes /\ ~has_double_quotes
                         THEN OkS(<<"\"">> \o v.s \o <<"\"">>)
                     ELSE IF ~has_single_quotes /\ has_double_quotes
                         THEN OkS(<<"'">> \o v.s \o <<"'">>)
                     ELSE IF ~has_single_quotes /\ ~has_double_quotes
                         THEN OkS(<<"\"">> \o v.s \o <<"\"">>)
                     ELSE LET quote_char == IF v.q = "Double" THEN "\"" ELSE "'"
                          IN  OkS(<<quote_char>> \o EscapeChars(v.s, quote_char)
                                  \o <<quote_char>>)
      [] v.k = "True" -> OkS(<<"t", "r", "u", "e">>)
      [] v.k = "False" -> OkS(<<"f", "a", "l", "s", "e">>)
      [] v.k = "Null" -> OkS(<<"n", "u", "l", "l">>)
      [] OTHER ->
            LET items == DisplayAll(FilterNotNull(v.vals))
            IN  IF ~IsOk(items) THEN items ELSE OkS(Join(items.s, <<",", " ">>))

----------------------------------------------------------------------------
(* Error messages                                                          *)

StartsWith(s, prefix) ==
    Len(s) >= Len(prefix) /\ SubSeq(s, 1, Len(prefix)) = prefix

UndefinedOperationPrefix ==
    <<"U", "n", "d", "e", "f", "i", "n", "e", "d", " ",
      "o", "p", "e", "r", "a", "t", "i", "o", "n", " ", "\"">>

IncompatibleUnitsPrefix ==
    <<"I", "n", "c", "o", "m", "p", "a", "t", "i", "b", "l", "e", " ",
      "u", "n", "i", "t", "s", " ">>

\* Err(format!("Undefined operation \"{} {} {}\".", a, op, b).into())
UndefinedOperation(a, op, b) ==
    LET da == call_Display(a)
        db == call_Display(b)
    IN  IF ~IsOk(da) THEN da
        ELSE IF ~IsOk(db) THEN db
        ELSE Err(UndefinedOperationPrefix \o da.s \o <<" ">> \o OpChars(op) \o <<" ">>
                 \o db.s \o <<"\"", ".">>)

\* Err(format!("Incompatible units {} and {}.", a, b).into())
IncompatibleUnits(a, b) ==
    Err(IncompatibleUnitsPrefix \o UnitChars(a) \o <<" ", "a", "n", "d", " ">>
        \o UnitChars(b) \o <<".">>)

IsUndefinedOperation(r) == r.tag = "err" /\ StartsWith(r.msg, UndefinedOperationPrefix)
IsIncompatibleUnits(r) == r.tag = "err" /\ StartsWith(r.msg, IncompatibleUnitsPrefix)

----------------------------------------------------------------------------
(* Arithmetic on values (impl Add, Sub, Mul, Div, Rem, Neg for Value).     *)
(* Operands that are expression nodes are evaluated first.                 *)

\* The unit of a product: one unitless operand adopts the other's unit,
\* otherwise the unit lists are concatenated.
MulUnits(a, b) ==
    LET as == IF a.u = "Mul" THEN a.units ELSE <<a>>
        bs == IF b.u = "Mul" THEN b.units ELSE <<b>>
    IN  IF a = UnitNone THEN b
        ELSE IF b = UnitNone THEN a
        ELSE UnitMul(as \o bs)

\* The unit of a quotient: equal units cancel.
DivUnits(a, b) ==
    IF a = b THEN UnitNone
    ELSE IF b = UnitNone THEN a
    ELSE UnitDiv(a, b)

\* numeric (+) numeric or numeric (-) numeric with unit resolution
AddDims(a, b, sign) ==
    LET b2 == IF sign = "-" THEN NumNeg(b.num) ELSE b.num
    IN  IF a.unit = b.unit THEN Ok(Dimension(NumAdd(a.num, b2), a.unit))
        ELSE IF a.unit = UnitNone THEN Ok(Dimension(NumAdd(a.num, b2), b.unit))
        ELSE IF b.unit = UnitNone THEN Ok(Dimension(NumAdd(a.num, b2), a.unit))
        ELSE IF comparable(a.unit, b.unit)
            THEN Ok(Dimension(NumAdd(a.num, NumMul(b2, UNIT_CONVERSION_TABLE(a.unit, b.unit))),
                              a.unit))
        ELSE IncompatibleUnits(b.unit, a.unit)

\* The text of a string fallback: the displayed operands around `mid`.
ConcatDisplayed(a, mid, b, q) ==
    LET da == IF a.k = "Ident" THEN OkS(a.s) ELSE call_Display(a)
        db == IF b.k = "Ident" THEN OkS(b.s) ELSE call_Display(b)
    IN  IF ~IsOk(da) THEN da
        ELSE IF ~IsOk(db) THEN db
        ELSE Ok(Ident(da.s \o mid \o db.s, q))

AddVals(a, b) ==
    CASE a.k = "Dimension" /\ b.k = "Dimension" -> AddDims(a, b, "+")
      [] a.k = "Ident" -> ConcatDisplayed(a, <<>>, b, a.q)
      [] b.k = "Ident" -> ConcatDisplayed(a, <<>>, b, b.q)
      [] a.k = "Null" -> ConcatDisplayed(Ident(<<>>, "None"), <<>>, b, "None")
      [] OTHER -> ConcatDisplayed(a, <<>>, b, "None")

SubVals(a, b) ==
    CASE a.k = "Dimension" /\ b.k = "Dimension" -> AddDims(a, b, "-")
      [] OTHER -> ConcatDisplayed(a, <<"-">>, b, "None")

DivisionByZero ==
    Err(<<"D", "i", "v", "i", "s", "i", "o", "n", " ", "b", "y", " ", "z", "e", "r", "o", ".">>)

MulVals(a, b) ==
    IF a.k = "Dimension" /\ b.k = "Dimension"
    THEN Ok(Dimension(NumMul(a.num, b.num), MulUnits(a.unit, b.unit)))
    ELSE UndefinedOperation(a, "Mul", b)

DivVals(a, b) ==
    IF a.k = "Dimension" /\ b.k = "Dimension"
    THEN IF NumIsZero(b.num) THEN DivisionByZero
         ELSE Ok(Dimension(NumDiv(a.num, b.num), DivUnits(a.unit, b.unit)))
    ELSE UndefinedOperation(a, "Div", b)

RemVals(a, b) ==
    IF a.k = "Dimension" /\ b.k = "Dimension"
    THEN IF NumIsZero(b.num) THEN DivisionByZero
         ELSE Ok(Dimension(NumRem(a.num, b.num),
                           IF a.unit = UnitNone THEN b.unit ELSE a.unit))
    ELSE UndefinedOperation(a, "Rem", b)

\* impl Add for Value
Add(l, r) ==
    LET a == call_eval(l)
        b == call_eval(r)
    IN  IF ~IsOk(a) THEN a ELSE IF ~IsOk(b) THEN b ELSE AddVals(a.v, b.v)

\* impl Sub for Value
Sub(l, r) ==
    LET a == call_eval(l)
        b == call_eval(r)
    IN  IF ~IsOk(a) THEN a ELSE IF ~IsOk(b) THEN b ELSE SubVals(a.v, b.v)

\* impl Mul for Value
Mul(l, r) ==
    LET a == call_eval(l)
        b == call_eval(r)
    IN  IF ~IsOk(a) THEN a ELSE IF ~IsOk(b) THEN b ELSE MulVals(a.v, b.v)

\* impl Div for Value
Div(l, r) ==
    LET a == call_eval(l)
        b == call_eval(r)
    IN  IF ~IsOk(a) THEN a ELSE IF ~IsOk(b) THEN b ELSE DivVals(a.v, b.v)

\* impl Rem for Value
Rem(l, r) ==
    LET a == call_eval(l)
        b == call_eval(r)
    IN  IF ~IsOk(a) THEN a ELSE IF ~IsOk(b) THEN b ELSE RemVals(a.v, b.v)

\* impl Neg for Value
Neg(v) ==
    LET a == call_eval(v)
    IN  IF ~IsOk(a) THEN a
        ELSE IF a.v.k = "Dimension" THEN Ok(Dimension(NumNeg(a.v.num), a.v.unit))
        ELSE ConcatDisplayed(Ident(<<>>, "None"), <<"-">>, a.v, "None")

----------------------------------------------------------------------------
(* impl Value                                                              *)

\* is_true deciding falsiness through is_null.
is_true_nullish(v) ==
    CASE is_null(v) \/ v.k = "False" -> OkB(FALSE)
      [] v.k \in {"BinaryOp", "Paren", "UnaryOp"} ->
            LET e == call_eval(v)
            IN  IF IsOk(e) THEN call_is_true(e.v) ELSE e
      [] OTHER -> OkB(TRUE)

\* Value::is_true
is_true(v) ==
    CASE v.k \in {"Null", "False"} -> OkB(FALSE)
      [] v.k \in {"BinaryOp", "Paren", "UnaryOp"} ->
            LET e == call_eval(v)
            IN  IF IsOk(e) THEN call_is_true(e.v) ELSE e
      [] OTHER -> OkB(TRUE)

\* Value::equals
equals(self, o) ==
    LET e == call_eval(self)
    IN  IF ~IsOk(e) THEN e
        ELSE CASE e.v.k = "Ident" ->
                    IF o.k = "Ident" THEN OkB(e.v.s = o.s) ELSE OkB(FALSE)
               [] e.v.k = "Dimension" ->
                    IF o.k = "Dimension"
                    THEN LET n == e.v.num
                             unit == e.v.unit
                             n2 == o.num
                             unit2 == o.unit
                         IN  IF ~comparable(unit, unit2) THEN OkB(FALSE)
                             ELSE IF unit = unit2 THEN OkB(n = n2)
                             ELSE IF unit = UnitNone \/ unit2 = UnitNone THEN OkB(FALSE)
                             ELSE OkB(n = NumMul(n2, UNIT_CONVERSION_TABLE(unit, unit2)))
                    ELSE OkB(FALSE)
               [] OTHER ->
                    LET eo == call_eval(o)
                    IN  IF IsOk(eo) THEN OkB(e.v = eo.v) ELSE eo

\* Value::unary_op_plus
unary_op_plus(self) ==
    LET e == call_eval(self)
    IN  IF ~IsOk(e) THEN e
        ELSE IF e.v.k = "Dimension" THEN e
        ELSE LET d == call_Display(e.v)
             IN  IF IsOk(d) THEN Ok(Ident(<<"+">> \o d.s, "None")) ELSE d

\* Op::And returning a falsy lhs as it stands, without evaluating it.
eval_And_unevaluated(lhs, rhs) ==
    LET t == call_is_true(lhs)
    IN  IF ~IsOk(t) THEN t
        ELSE IF t.b THEN call_eval(rhs) ELSE Ok(lhs)

\* Value::eval, Op::And
eval_And(lhs, rhs) ==
    LET t == call_is_true(lhs)
    IN  IF ~IsOk(t) THEN t
        ELSE IF t.b THEN call_eval(rhs) ELSE call_eval(lhs)

\* Op::Or with the arms of Op::And.
eval_Or_last(lhs, rhs) ==
    LET t == call_is_true(lhs)
    IN  IF ~IsOk(t) THEN t
        ELSE IF t.b THEN call_eval(rhs) ELSE call_eval(lhs)

\* Value::eval, Op::Or
eval_Or(lhs, rhs) ==
    LET t == call_is_true(lhs)
    IN  IF ~IsOk(t) THEN t
        ELSE IF t.b THEN call_eval(lhs) ELSE call_eval(rhs)

\* Value::eval, Self::UnaryOp
eval_UnaryOp(op, v) ==
    CASE op = "Plus" -> unary_op_plus(v)
      [] op = "Minus" -> Neg(v)
      [] op = "Not" ->
            LET e == call_eval(v)
            IN  IF ~IsOk(e) THEN e
                ELSE LET t == call_is_true(e.v)
                     IN  IF IsOk(t) THEN Ok(bool(~t.b)) ELSE t
      [] OTHER -> Panic("unreachable")

\* Value::eval
eval(self) ==
    CASE self.k = "BinaryOp" ->
            LET lhs == self.lhs
                op == self.op
                rhs == self.rhs
            IN  CASE op = "Plus" -> Add(lhs, rhs)
                  [] op = "Minus" -> Sub(lhs, rhs)
                  [] op = "Equal" ->
                        LET r == equals(lhs, rhs)
                        IN  IF IsOk(r) THEN Ok(bool(r.b)) ELSE r
                  [] op = "NotEqual" ->
                        LET r == equals(lhs, rhs)
                        IN  IF IsOk(r) THEN Ok(bool(~r.b)) ELSE r
                  [] op = "Mul" -> Mul(lhs, rhs)
                  [] op = "Div" -> Div(lhs, rhs)
                  [] op = "Rem" -> Rem(lhs, rhs)
                  [] op \in CmpOps -> call_cmp(lhs, rhs, op)
                  [] op = "Not" -> Panic("unreachable")
                  [] op = "And" -> eval_And(lhs, rhs)
                  [] OTHER -> eval_Or(lhs, rhs)
      [] self.k = "Paren" -> call_eval(self.inner)
      [] self.k = "UnaryOp" -> eval_UnaryOp(self.op, self.val)
      [] OTHER -> Ok(self)

\* The final match of Value::cmp: the Ordering under the operator.
OrderingResult(ordering, op) ==
    CASE op = "GreaterThan" -> Ok(bool(ordering = "Greater"))
      [] op = "GreaterThanEqual" -> Ok(bool(ordering \in {"Greater", "Equal"}))
      [] op = "LessThan" -> Ok(bool(ordering = "Less"))
      [] op = "LessThanEqual" -> Ok(bool(ordering \in {"Less", "Equal"}))
      [] OTHER -> Panic("unreachable")

\* Value::cmp, from `let precedence` on: other is what the leading
\* `if let Self::Paren(..) = other` left.
CmpFrom(self, o, op) ==
    CASE self.k = "Dimension" ->
            (CASE o.k = "Dimension" ->
                    LET num == self.num
                        unit == self.unit
                        num2 == o.num
                        unit2 == o.unit
                    IN  IF ~comparable(unit, unit2) THEN IncompatibleUnits(unit2, unit)
                        ELSE IF unit = unit2 THEN OrderingResult(NumCmp(num, num2), op)
                        ELSE IF unit = UnitNone THEN OrderingResult(NumCmp(num, num2), op)
                        ELSE IF unit2 = UnitNone THEN OrderingResult(NumCmp(num, num2), op)
                        ELSE OrderingResult(
                                 NumCmp(num, NumMul(num2, UNIT_CONVERSION_TABLE(unit, unit2))),
                                 op)
               [] o.k = "BinaryOp" -> Panic("todo")
               [] OTHER -> UndefinedOperation(o, op, o))
      [] self.k = "BinaryOp" ->
            IF precedence(self.op) >= precedence(op)
            THEN LET e == call_eval(self)
                 IN  IF IsOk(e) THEN call_cmp(e.v, o, op) ELSE e
            ELSE LET inner == call_eval(BinaryOp(self.rhs, op, o))
                 IN  IF IsOk(inner) THEN call_eval(BinaryOp(self.lhs, self.op, inner.v))
                     ELSE inner
      [] self.k \in {"UnaryOp", "Paren"} ->
            LET e == call_eval(self)
            IN  IF IsOk(e) THEN call_cmp(e.v, o, op) ELSE e
      [] OTHER -> UndefinedOperation(self, op, o)

\* Value::cmp
cmp(self, o, op) ==
    IF o.k = "Paren"
    THEN LET e == call_eval(o)
         IN  IF IsOk(e) THEN CmpFrom(self, e.v, op) ELSE e
    ELSE CmpFrom(self, o, op)

\* The dispatch of a call to Display, eval, is_true or cmp.
Apply(f, x, y, op) ==
    CASE f = "Display" -> Display(x)
      [] f = "eval" -> eval(x)
      [] f = "is_true" -> is_true(x)
      [] OTHER -> cmp(x, y, op)

----------------------------------------------------------------------------
(* The inputs of the value specification.                                  *)

Dim(n, u) == Dimension(Int2Num(n), u)
a_ident == Ident(<<"a">>, "None")
empty_ident == Ident(<<>>, "None")

\* Primitive values that stand as the leaves of expression trees.
Leaves ==
    {Null, True, False, a_ident, empty_ident,
     Dim(1, Known("cm")), Dim(10, Known("mm")), Dim(1, Known("s"))}
    \cup {Dim(n, UnitNone) : n \in 1..MaxNum}

\* The leaves of the inner trees of nested expressions.
CoreLeaves == {False, Dim(1, UnitNone), a_ident}

UnaryOps == {"Plus", "Minus", "Not"}
BinaryOps == Ops \ {"Not"}

\* Expression nodes directly over the values of S.
ExprsOver(S) ==
    {Paren(v) : v \in S}
    \cup {UnaryOp(op, v) : op \in UnaryOps, v \in S}
    \cup {BinaryOp(l, op, r) : l \in S, op \in BinaryOps, r \in S}

Exprs1 == ExprsOver(Leaves)
CoreExprs == ExprsOver(CoreLeaves)

\* Nested expressions: one operand an expression, the other a leaf.
Exprs2 ==
    {Paren(v) : v \in CoreExprs}
    \cup {UnaryOp(op, v) : op \in UnaryOps, v \in CoreExprs}
    \cup {BinaryOp(l, op, r) : l \in CoreExprs, op \in BinaryOps, r \in Leaves}
    \cup {BinaryOp(l, op, r) : l \in Leaves, op \in BinaryOps, r \in CoreExprs}

\* Nodes that carry an operator not valid in their position.
InvalidOpExprs == {BinaryOp(True, "Not", False), UnaryOp("Mul", Dim(1, UnitNone))}

ListItems == {Null, empty_ident, a_ident, Dim(1, UnitNone)}
ItemSeqs == UNION {[1..n -> ListItems] : n \in 0..MaxList}

\* Every primitive (non-expression) value of the inputs.
Atoms ==
    Leaves
    \cup {Important, Dim(0, UnitNone), Ident(<<>>, "Double"), Ident(<<"a">>, "Double"),
          Ident(<<"a">>, "Single"), Color(<<"r", "e", "d">>), Function(<<"f">>),
          Map(<<>>), Map(<<<<a_ident, Null>>>>),
          Dim(1, Known("mm")), Dim(10, Known("s"))}
    \cup {List(vs, sep, br) : vs \in ItemSeqs, sep \in {"Space", "Comma"},
                              br \in {"None", "Bracketed"}}
    \cup {ArgList(vs) : vs \in ItemSeqs}

\* The operand pairs of equals and cmp.
Operands ==
    Leaves
    \cup {Dim(1, Known("mm")), Ident(<<"a">>, "Double"), List(<<>>, "Space", "None")}
    \cup CoreExprs

----------------------------------------------------------------------------
(* The value specification: an operation of impl Value applied to inputs.  *)

InitMixinIdle ==
    /\ mixin = [scope |-> <<>>, args |-> <<>>, body |-> <<>>]
    /\ callArgs = <<>>
    /\ superSel = <<>>
    /\ mopn = "idle"
    /\ mout = NoResult
    /\ callerScope = <<>>
    /\ included = <<>>
    /\ toks = <<>>
    /\ decl = NoResult

Init ==
    /\ \/ val \in Atoms \cup Exprs1 \cup Exprs2 \cup InvalidOpExprs /\ other = NoValue
       \/ val \in Operands /\ other \in Operands
    /\ opn = "init"
    /\ cop = "none"
    /\ out = NoResult
    /\ InitMixinIdle

\* self.eval()
Eval ==
    /\ other = NoValue
    /\ opn' = "eval"
    /\ cop' = "none"
    /\ out' = call_eval(val)
    /\ UNCHANGED <<val, other, mixinVars>>

\* self.is_true()
IsTrue ==
    /\ other = NoValue
    /\ opn' = "is_true"
    /\ cop' = "none"
    /\ out' = call_is_true(val)
    /\ UNCHANGED <<val, other, mixinVars>>

\* self.is_null()
IsNull ==
    /\ other = NoValue
    /\ opn' = "is_null"
    /\ cop' = "none"
    /\ out' = OkB(is_null(val))
    /\ UNCHANGED <<val, other, mixinVars>>

\* self.to_string()
ToStr ==
    /\ other = NoValue
    /\ opn' = "to_string"
    /\ cop' = "none"
    /\ out' = call_Display(val)
    /\ UNCHANGED <<val, other, mixinVars>>

\* self.equals(other)
Equals ==
    /\ other # NoValue
    /\ opn' = "equals"
    /\ cop' = "none"
    /\ out' = equals(val, other)
    /\ UNCHANGED <<val, other, mixinVars>>

\* self.cmp(other, op)
Cmp ==
    /\ other # NoValue
    /\ \E op \in CmpOps :
          /\ opn' = "cmp"
          /\ cop' = op
          /\ out' = call_cmp(val, other, op)
    /\ UNCHANGED <<val, other, mixinVars>>

Next == Eval \/ IsTrue \/ IsNull \/ ToStr \/ Equals \/ Cmp

Spec == Init /\ [][Next]_vars

----------------------------------------------------------------------------
(* Claims about the value algebra, checked under Spec.                     *)

Falsy(v) == v \in {Null, False}

\* The first truthy value of a sequence of primitive values, the last
\* value when none is truthy.
RECURSIVE FirstTruthy(_)
FirstTruthy(vs) ==
    IF Len(vs) = 1 \/ ~Falsy(Head(vs)) THEN Head(vs) ELSE FirstTruthy(Tail(vs))

\* C1: `l or r` evaluates to eval(l) when l is truthy and to eval(r)
\* otherwise, so that a left-associated chain `a or b or c` of primitive
\* values yields the first truthy operand, or the last one when none is
\* truthy.
C1_OrFirstTruthy ==
    (opn = "eval" /\ val.k = "BinaryOp" /\ val.op = "Or") =>
        LET l == call_eval(val.lhs)
        IN  /\ (IsOk(l) /\ ~Falsy(l.v)) => out = l
            /\ (IsOk(l) /\ Falsy(l.v)) => out = call_eval(val.rhs)
            /\ ( /\ val.lhs.k = "BinaryOp" /\ val.lhs.op = "Or"
                 /\ ~IsExpr(val.lhs.lhs) /\ ~IsExpr(val.lhs.rhs) /\ ~IsExpr(val.rhs) )
               => out = Ok(FirstTruthy(<<val.lhs.lhs, val.lhs.rhs, val.rhs>>))

\* `false or 1 or a` was evaluated to its second operand.
C1_Witness ==
    /\ opn = "eval"
    /\ val = BinaryOp(BinaryOp(False, "Or", Dim(1, UnitNone)), "Or", a_ident)
    /\ out = Ok(Dim(1, UnitNone))

\* C2: whenever evaluation of v succeeds, is_true(v) is false exactly when
\* eval(v) is Null or False; every other primitive value, 0, the empty
\* string and the empty list included, is truthy.
C2_FalsyIffNullOrFalse ==
    opn = "is_true" =>
        LET e == call_eval(val)
        IN  /\ IsOk(e) => out = OkB(~Falsy(e.v))
            /\ (~IsExpr(val) /\ ~Falsy(val)) => out = OkB(TRUE)

\* is_true evaluated the expression `a and null` and found it falsy.
C2_Witness ==
    /\ opn = "is_true"
    /\ val = BinaryOp(a_ident, "And", Null)
    /\ out = OkB(FALSE)

\* C3: eval is idempotent: a value returned by eval is no expression node,
\* and evaluating it again returns it.
C3_EvalIdempotent ==
    (opn = "eval" /\ IsOk(out)) =>
        /\ ~IsExpr(out.v)
        /\ call_eval(out.v) = out

\* `and` selected a falsy left operand that is itself an expression.
C3_Witness ==
    /\ opn = "eval"
    /\ val.k = "BinaryOp" /\ val.op = "And"
    /\ val.lhs = Paren(False)
    /\ out = Ok(False)

\* C4: equals gives the same result whether an operand is given directly
\* or as an unevaluated expression, and equals(a, b) = equals(b, a).
C4_EqualsAfterEvalOfBoth ==
    opn = "equals" =>
        LET a == call_eval(val)
            b == call_eval(other)
        IN  (IsOk(a) /\ IsOk(b)) =>
                /\ out = equals(a.v, b.v)
                /\ out = equals(other, val)

\* The ordering of two magnitudes under a comparison operator.
Holds(ordering, op) ==
    CASE op = "GreaterThan" -> ordering = "Greater"
      [] op = "GreaterThanEqual" -> ordering \in {"Greater", "Equal"}
      [] op = "LessThan" -> ordering = "Less"
      [] OTHER -> ordering \in {"Less", "Equal"}

\* The right magnitude in the left operand's unit.
Converted(l, r) ==
    IF l.unit = r.unit \/ l.unit = UnitNone \/ r.unit = UnitNone THEN r.num
    ELSE NumMul(r.num, UNIT_CONVERSION_TABLE(l.unit, r.unit))

\* C5: a comparison of two dimensions is an "Incompatible units" error when
\* the units are incomparable and otherwise the ordering of the left
\* magnitude against the converted right magnitude; when either evaluated
\* operand is not a number it is an "Undefined operation" error.  (A left
\* operand that is a binary operation of lower precedence is re-associated
\* and is not an operand of the comparison.)
C5_CmpDimensionsOrUndefined ==
    (opn = "cmp" /\ ~(val.k = "BinaryOp" /\ precedence(val.op) < precedence(cop))) =>
        LET a == call_eval(val)
            b == call_eval(other)
        IN  /\ (val.k = "Dimension" /\ other.k = "Dimension") =>
                IF comparable(val.unit, other.unit)
                THEN out = Ok(bool(Holds(NumCmp(val.num, Converted(val, other)), cop)))
                ELSE IsIncompatibleUnits(out)
            /\ (IsOk(a) /\ IsOk(b) /\ (a.v.k # "Dimension" \/ b.v.k # "Dimension"))
               => IsUndefinedOperation(out)

\* C8: eval never aborts through a panic.
C8_EvalNeverPanics ==
    opn = "eval" => out.tag # "panic"

\* val with every empty unquoted identifier among its items replaced by Null.
NullForEmpty(v) ==
    [v EXCEPT !.vals = [i \in 1..Len(v.vals) |->
                           IF v.vals[i] = empty_ident THEN Null ELSE v.vals[i]]]

\* C9 as stated: is_true gives the empty unquoted identifier the result it
\* gives Null.
C9_EmptyIdentFalsy ==
    (opn = "is_true" /\ val = empty_ident) => out = call_is_true(Null)

\* C9 as amended: the empty unquoted identifier is Null for list filtering
\* only: is_null holds of it and the displayed form of a List or ArgList
\* drops it exactly as it drops Null; is_true finds it truthy.
C9_EmptyIdentNullInListsOnly ==
    /\ (opn = "to_string" /\ val.k \in {"List", "ArgList"}) =>
            out = call_Display(NullForEmpty(val))
    /\ (opn = "is_null" /\ val = empty_ident) => out = OkB(TRUE)
    /\ (opn = "is_true" /\ val = empty_ident) => out = OkB(TRUE)

\* The list `, a` whose first item is the empty identifier displays as `a`.
C9_Witness ==
    /\ opn = "to_string"
    /\ val = List(<<empty_ident, a_ident>>, "Comma", "None")
    /\ out = OkS(<<"a">>)

----------------------------------------------------------------------------
(* Mixins: struct Mixin { scope, args, body }.                             *)
(* A Scope is a function from variable names to values, FuncArgs a         *)
(* sequence of [name, default] (default NoValue for None), CallArgs a      *)
(* function from keys to values, a positional argument keyed by its index  *)
(* in decimal.  A body is a sequence of tokens [kind, pos], one token per  *)
(* statement, block opening (`sel {`) or closing brace.                    *)

\* format!("{}", idx)
RECURSIVE IdxKey(_)
IdxKey(idx) == IF idx < 10 THEN Digit(idx) ELSE IdxKey(idx \div 10) \o Digit(idx % 10)

\* CallArgs::remove: the CallArgs without the key.
Remove(args, key) == [x \in DOMAIN args \ {key} |-> args[x]]

\* Scope::insert_var
insert_var(scope, name, v) ==
    [x \in DOMAIN scope \cup {name} |-> IF x = name THEN v ELSE scope[x]]

\* Selector::zip
zip(parent, child) == parent \o child

\* The match of Mixin::args with the positional and keyword lookups swapped.
bind_arg_keyword_first(arg, idx, args) ==
    IF arg.name \in DOMAIN args
    THEN [found |-> TRUE, v |-> args[arg.name], args |-> Remove(args, arg.name)]
    ELSE IF IdxKey(idx) \in DOMAIN args
    THEN [found |-> TRUE, v |-> args[IdxKey(idx)], args |-> Remove(args, IdxKey(idx))]
    ELSE IF arg.default # NoValue
    THEN [found |-> TRUE, v |-> arg.default, args |-> args]
    ELSE [found |-> FALSE, v |-> NoValue, args |-> args]

\* The match of Mixin::args: the value bound to the parameter `arg` with
\* index idx and the CallArgs left, or found = FALSE for the Err arm.
bind_arg(arg, idx, args) ==
    IF IdxKey(idx) \in DOMAIN args
    THEN [found |-> TRUE, v |-> args[IdxKey(idx)], args |-> Remove(args, IdxKey(idx))]
    ELSE IF arg.name \in DOMAIN args
    THEN [found |-> TRUE, v |-> args[arg.name], args |-> Remove(args, arg.name)]
    ELSE IF arg.default # NoValue
    THEN [found |-> TRUE, v |-> arg.default, args |-> args]
    ELSE [found |-> FALSE, v |-> NoValue, args |-> args]

\* The loop of Mixin::args from the parameter with index idx on.
RECURSIVE args_loop(_, _, _)
args_loop(self, idx, args) ==
    IF idx >= Len(self.args)
    THEN [tag |-> "ok", mixin |-> self, left |-> args]
    ELSE LET arg == self.args[idx + 1]
             b == bind_arg(arg, idx, args)
         IN  IF ~b.found
             THEN [tag |-> "err", msg |-> <<"Missing argument $", arg.name, ".">>,
                   left |-> b.args]
             ELSE args_loop([self EXCEPT !.scope = insert_var(self.scope, arg.name, b.v)],
                            idx + 1, b.args)

\* Mixin::args: Ok(mixin) or Err(msg), with the CallArgs left in `args`.
Mixin_args(self, args) == args_loop(self, 0, args)

(* enum Expr, enum Stmt                                                    *)

Style(pos) == [k |-> "Style", pos |-> pos]
AtRule(rule, super, pos) == [k |-> "AtRule", rule |-> rule, super_selector |-> super, pos |-> pos]
RuleSet(super, selector, rules) ==
    [k |-> "RuleSet", super_selector |-> super, selector |-> selector, rules |-> rules]
MultilineComment(pos) == [k |-> "MultilineComment", pos |-> pos]

\* eat_expr: the next expression of the stream with the stream left, None
\* at a closing brace and at the end of the stream.  An at-rule is parsed
\* under the super_selector it is met in.
eat_expr(body, scope, super_selector) ==
    IF body = <<>> THEN [expr |-> [e |-> "None"], body |-> body]
    ELSE LET tok == Head(body)
             e == CASE tok.kind = "close" -> [e |-> "None"]
                    [] tok.kind = "style" -> [e |-> "Style", s |-> Style(tok.pos)]
                    [] tok.kind = "styles" ->
                          [e |-> "Styles", s |-> <<Style(tok.pos), Style(tok.pos)>>]
                    [] tok.kind = "media" ->
                          [e |-> "AtRule", a |-> AtRule("Media", super_selector, tok.pos)]
                    [] tok.kind = "content" ->
                          [e |-> "AtRule", a |-> AtRule("Content", super_selector, tok.pos)]
                    [] tok.kind = "include" -> [e |-> "Include", s |-> <<Style(tok.pos)>>]
                    [] tok.kind = "function" -> [e |-> "FunctionDecl"]
                    [] tok.kind = "mixin" -> [e |-> "MixinDecl"]
                    [] tok.kind = "debug" -> [e |-> "Debug"]
                    [] tok.kind = "warn" -> [e |-> "Warn"]
                    [] tok.kind = "selector" -> [e |-> "Selector", selector |-> <<tok.pos>>]
                    [] tok.kind = "var" ->
                          [e |-> "VariableDecl", name |-> "x", v |-> Dim(tok.pos, UnitNone)]
                    [] OTHER -> [e |-> "MultilineComment", s |-> tok.pos]
         IN  [expr |-> e, body |-> Tail(body)]

\* Mixin::eval with the declaration arms pushing nothing and going on.
RECURSIVE eval_loop_skip_decls(_, _, _, _)
eval_loop_skip_decls(body, scope, super_selector, stmts) ==
    LET n == eat_expr(body, scope, super_selector)
        expr == n.expr
    IN  CASE expr.e = "None" -> [res |-> Ok(stmts), body |-> n.body, scope |-> scope]
          [] expr.e = "Selector" ->
                LET r == eval_loop_skip_decls(n.body, scope,
                                              zip(super_selector, expr.selector), <<>>)
                IN  IF ~IsOk(r.res) THEN r
                    ELSE eval_loop_skip_decls(r.body, r.scope, super_selector,
                             Append(stmts, RuleSet(super_selector, expr.selector, r.res.v)))
          [] expr.e = "Style" ->
                eval_loop_skip_decls(n.body, scope, super_selector, Append(stmts, expr.s))
          [] OTHER -> eval_loop_skip_decls(n.body, scope, super_selector, stmts)

\* Mixin::eval: the while loop with `stmts` collected so far.  Returns the
\* SassResult with the body and the scope of the mixin as the loop left them.
RECURSIVE eval_loop(_, _, _, _)
eval_loop(body, scope, super_selector, stmts) ==
    LET n == eat_expr(body, scope, super_selector)
        expr == n.expr
    IN  CASE expr.e = "None" -> [res |-> Ok(stmts), body |-> n.body, scope |-> scope]
          [] expr.e = "AtRule" ->
                IF expr.a.rule = "Content"
                THEN [res |-> Panic("todo"), body |-> n.body, scope |-> scope]
                ELSE eval_loop(n.body, scope, super_selector, Append(stmts, expr.a))
          [] expr.e = "Style" ->
                eval_loop(n.body, scope, super_selector, Append(stmts, expr.s))
          [] expr.e = "Styles" ->
                eval_loop(n.body, scope, super_selector, stmts \o expr.s)
          [] expr.e = "Include" ->
                eval_loop(n.body, scope, super_selector, stmts \o expr.s)
          [] expr.e = "FunctionDecl" ->
                [res |-> Err(<<"Mixins may not contain function declarations.">>),
                 body |-> n.body, scope |-> scope]
          [] expr.e = "MixinDecl" ->
                [res |-> Err(<<"Mixins may not contain mixin declarations.">>),
                 body |-> n.body, scope |-> scope]
          [] expr.e \in {"Debug", "Warn"} ->
                [res |-> Panic("todo"), body |-> n.body, scope |-> scope]
          [] expr.e = "Selector" ->
                LET r == eval_loop(n.body, scope, zip(super_selector, expr.selector), <<>>)
                IN  IF ~IsOk(r.res) THEN r
                    ELSE eval_loop(r.body, r.scope, super_selector,
                             Append(stmts, RuleSet(super_selector, expr.selector, r.res.v)))
          [] expr.e = "VariableDecl" ->
                eval_loop(n.body, insert_var(scope, expr.name, expr.v), super_selector, stmts)
          [] OTHER ->
                eval_loop(n.body, scope, super_selector,
                          Append(stmts, MultilineComment(expr.s)))

\* Mixin::eval
Mixin_eval(self, super_selector) == eval_loop(self.body, self.scope, super_selector, <<>>)

\* Mixin::call
Mixin_call(self, super_selector) == Mixin_eval(self, super_selector)

----------------------------------------------------------------------------
(* The inputs of the mixin specification.                                  *)

ParamNames == {"a", "b", "c"}

\* The parameter lists: at most MaxParams parameters of distinct names, each
\* with or without a default value.
FuncArgsSet ==
    UNION { { fa \in [1..n -> [name : ParamNames, default : {NoValue, True}]] :
                \A i, j \in 1..n : fa[i].name = fa[j].name => i = j } : n \in 0..MaxParams }

\* The value the call gives for a key: every argument of a call is a
\* different value.
ArgValue(key) == Ident(<<"v", key>>, "None")

\* The call arguments: positional arguments 0..n-1 and keyword arguments.
CallArgsSet ==
    { [key \in {IdxKey(i) : i \in 0..(n - 1)} \cup kw |-> ArgValue(key)] :
        n \in 0..MaxParams, kw \in SUBSET ParamNames }

TokenKinds ==
    {"style", "styles", "media", "content", "include", "function", "mixin",
     "debug", "warn", "selector", "close", "var", "comment"}

Count(ks, n, kinds) == Cardinality({i \in 1..n : ks[i] \in kinds})

\* Every closing brace closes a block opened before it, and every block is
\* closed.
Balanced(ks) ==
    /\ \A n \in 1..Len(ks) : Count(ks, n, {"close"}) <= Count(ks, n, {"selector"})
    /\ Count(ks, Len(ks), {"close"}) = Count(ks, Len(ks), {"selector"})

FlatBodies ==
    UNION { { ks \in [1..n -> TokenKinds] : Balanced(ks) } : n \in 0..MaxBody }

\* The bodies: up to MaxBody tokens, as they are or within one more block,
\* followed by the closing brace of the mixin.
BodyKinds ==
    { ks \o <<"close">> : ks \in FlatBodies }
        \cup { <<"selector">> \o ks \o <<"close", "close">> : ks \in FlatBodies }

Tokens(ks) == [i \in 1..Len(ks) |-> [kind |-> ks[i], pos |-> i]]

----------------------------------------------------------------------------
(* The mixin specification: eat_include binds the arguments of the call    *)
(* to a clone of the mixin (Args), then replays its body (Call).           *)

InitValueIdle ==
    /\ val = NoValue
    /\ other = NoValue
    /\ opn = "idle"
    /\ cop = "none"
    /\ out = NoResult

InitMixin ==
    /\ InitValueIdle
    /\ \/ /\ mixin \in [scope : {<<>>, [x \in {"a"} |-> False]},
                        args : FuncArgsSet,
                        body : {Tokens(<<"var", "style", "close">>)}]
          /\ callArgs \in CallArgsSet
       \/ /\ mixin \in [scope : {<<>>}, args : {<<>>}, body : {Tokens(ks) : ks \in BodyKinds}]
          /\ callArgs = <<>>
    /\ superSel \in {<<>>, <<0>>}
    /\ mopn = "init"
    /\ mout = NoResult
    /\ callerScope = <<>>
    /\ included = <<>>
    /\ toks = <<>>
    /\ decl = NoResult

\* mixin.args(&mut args): mout.left is `args` after the call.
Args ==
    /\ mopn = "init"
    /\ mopn' = "args"
    /\ mout' = Mixin_args(mixin, callArgs)
    /\ UNCHANGED <<mixin, callArgs, superSel, valueVars, includeVars, declVars>>

\* .call(super_selector) on the mixin that args returned
Call ==
    /\ mopn = "args"
    /\ mout.tag = "ok"
    /\ mopn' = "call"
    /\ mout' = Mixin_call(mout.mixin, superSel).res
    /\ UNCHANGED <<mixin, callArgs, superSel, valueVars, includeVars, declVars>>

NextMixin == Args \/ Call

SpecMixin == InitMixin /\ [][NextMixin]_vars

----------------------------------------------------------------------------
(* Claims about mixins.                                                    *)

\* The key of the call argument that the parameter with index idx takes
\* from the call `ca`: its position if the call has it, otherwise its name
\* if the call has it, otherwise "" (no key is empty).
SourceKey(fa, idx, ca) ==
    IF IdxKey(idx) \in DOMAIN ca THEN IdxKey(idx)
    ELSE IF fa[idx + 1].name \in DOMAIN ca THEN fa[idx + 1].name
    ELSE ""

\* The parameters that neither the call nor a default gives a value.
MissingParams(fa, ca) ==
    {idx \in 0..(Len(fa) - 1) : SourceKey(fa, idx, ca) = "" /\ fa[idx + 1].default = NoValue}

Min(S) == CHOOSE x \in S : \A y \in S : x <= y

\* C6: Mixin::args binds each declared parameter, in order of declaration,
\* to the positional argument of its index if the call has one, otherwise
\* to the keyword argument of its name if the call has one, otherwise to
\* its default, and fails with "Missing argument $name." for the first
\* parameter that has none of the three.  On success every parameter is a
\* variable of the mixin's own scope, the other variables of the scope are
\* untouched, and each parameter took a different argument out of the call:
\* exactly the arguments taken are gone from it.
C6_ArgsBindingOrder ==
    mopn = "args" =>
        LET fa == mixin.args
            idxs == 0..(Len(fa) - 1)
            missing == MissingParams(fa, callArgs)
            bound == IF missing = {} THEN idxs ELSE {i \in idxs : i < Min(missing)}
            used == {SourceKey(fa, i, callArgs) : i \in bound} \ {""}
        IN  /\ \A i, j \in bound :
                 ( /\ SourceKey(fa, i, callArgs) = SourceKey(fa, j, callArgs)
                   /\ SourceKey(fa, i, callArgs) # "" ) => i = j
            /\ DOMAIN mout.left = DOMAIN callArgs \ used
            /\ \A key \in DOMAIN mout.left : mout.left[key] = callArgs[key]
            /\ IF missing = {}
               THEN /\ mout.tag = "ok"
                    /\ mout.mixin.args = fa
                    /\ mout.mixin.body = mixin.body
                    /\ DOMAIN mout.mixin.scope =
                           DOMAIN mixin.scope \cup {fa[i + 1].name : i \in idxs}
                    /\ \A i \in idxs :
                         mout.mixin.scope[fa[i + 1].name] =
                             IF SourceKey(fa, i, callArgs) # ""
                             THEN callArgs[SourceKey(fa, i, callArgs)]
                             ELSE fa[i + 1].default
                    /\ \A x \in DOMAIN mixin.scope \ {fa[i + 1].name : i \in idxs} :
                         mout.mixin.scope[x] = mixin.scope[x]
               ELSE /\ mout.tag = "err"
                    /\ mout.msg = <<"Missing argument $", fa[Min(missing) + 1].name, ".">>

\* C6 witness: `@mixin m($a, $b: true)` called as `m(x, $a: y)`: $a takes
\* the positional argument although the keyword $a is given, $b its default,
\* and the keyword argument stays in the call.
C6_Witness ==
    /\ mopn = "args"
    /\ mixin.args = <<[name |-> "a", default |-> NoValue], [name |-> "b", default |-> True]>>
    /\ DOMAIN callArgs = {"0", "a"}
    /\ mixin.scope = [x \in {"a"} |-> False]
    /\ mout.tag = "ok"
    /\ mout.mixin.scope = [x \in {"a", "b"} |-> IF x = "a" THEN ArgValue("0") ELSE True]
    /\ DOMAIN mout.left = {"a"}

\* No RuleSet of the statements, at any depth, has an at-rule among its
\* rules.
RECURSIVE NoAtRuleInRuleSets(_, _)
NoAtRuleInRuleSets(stmts, inRuleSet) ==
    \A i \in 1..Len(stmts) :
        CASE stmts[i].k = "AtRule" -> ~inRuleSet
          [] stmts[i].k = "RuleSet" -> NoAtRuleInRuleSets(stmts[i].rules, TRUE)
          [] OTHER -> TRUE

\* C7: in the statements that replaying a mixin body returns, an at-rule
\* written inside a rule block is hoisted out of it: no RuleSet, at any
\* depth, has the at-rule in its rules.
C7_AtRulesBubbleOut ==
    (mopn = "call" /\ IsOk(mout)) => NoAtRuleInRuleSets(mout.v, FALSE)

Kinds(body) == {body[i].kind : i \in 1..Len(body)}

\* The position of the first token of the body that stops the replay: a
\* declaration, or a statement whose arm is todo!().
FirstStop(body) ==
    Min({i \in 1..Len(body) :
            body[i].kind \in {"function", "mixin", "content", "debug", "warn"}})

----------------------------------------------------------------------------
(* The include specification: @include statements of one mixin, evaluated  *)
(* one after the other against the same caller scope.                      *)

\* eat_include with the stored mixin of the scope worked on in place.
eat_include_in_place(stored, scope, args, super_selector) ==
    LET bound == Mixin_args(stored, args)
    IN  IF bound.tag = "err"
        THEN [rules |-> Err(bound.msg), mixin |-> stored, scope |-> scope]
        ELSE LET r == Mixin_call(bound.mixin, super_selector)
             IN  [rules |-> r.res,
                  mixin |-> [bound.mixin EXCEPT !.scope = r.scope, !.body = r.body],
                  scope |-> scope]

\* eat_include from the lookup of the mixin on: `stored` is the mixin that
\* scope.get_mixin finds, `scope` the variables of the caller's &Scope.
\* Returns the SassResult with the stored mixin and the scope as they are
\* left: the include works on a clone, and the scope is borrowed immutably.
eat_include(stored, scope, args, super_selector) ==
    LET clone == stored
        bound == Mixin_args(clone, args)
    IN  IF bound.tag = "err"
        THEN [rules |-> Err(bound.msg), mixin |-> stored, scope |-> scope]
        ELSE LET r == Mixin_call(bound.mixin, super_selector)
             IN  [rules |-> r.res, mixin |-> stored, scope |-> scope]

IncludeParams ==
    { <<>>,
      <<[name |-> "a", default |-> NoValue]>>,
      <<[name |-> "a", default |-> NoValue], [name |-> "x", default |-> True]>> }

IncludeArgs ==
    { <<>>, [key \in {"0"} |-> ArgValue(key)], [key \in {"a", "x"} |-> ArgValue(key)] }

IncludeBodies ==
    { <<"close">>,
      <<"var", "style", "close">>,
      <<"selector", "var", "media", "close", "style", "close">>,
      <<"style", "function", "close">>,
      <<"comment", "content", "close">> }

InitInclude ==
    /\ InitValueIdle
    /\ mixin \in [scope : {<<>>, [x \in {"a"} |-> False]},
                  args : IncludeParams,
                  body : {Tokens(ks) : ks \in IncludeBodies}]
    /\ callArgs = <<>>
    /\ superSel = <<>>
    /\ mopn = "init"
    /\ mout = NoResult
    /\ callerScope \in {<<>>, [x \in {"x"} |-> True]}
    /\ included = <<>>
    /\ toks = <<>>
    /\ decl = NoResult

\* eat_include(toks, scope, super_selector); a panic ends the compilation.
Include ==
    /\ Len(included) < MaxIncludes
    /\ \A i \in 1..Len(included) : included[i].rules.tag # "panic"
    /\ \E args \in IncludeArgs, super_selector \in {<<>>, <<0>>} :
         LET r == eat_include(mixin, callerScope, args, super_selector)
         IN  /\ mixin' = r.mixin
             /\ callerScope' = r.scope
             /\ callArgs' = args
             /\ superSel' = super_selector
             /\ mopn' = "include"
             /\ mout' = r.rules
             /\ included' = Append(included,
                    [args |-> args, super_selector |-> super_selector, rules |-> r.rules])
    /\ UNCHANGED <<valueVars, declVars>>

NextInclude == Include

SpecInclude == InitInclude /\ [][NextInclude]_vars

\* Two includes with the same arguments and super-selector returned the
\* same.
SameIncludesSameRules ==
    \A i, j \in 1..Len(included) :
        ( /\ included[i].args = included[j].args
          /\ included[i].super_selector = included[j].super_selector )
        => included[i].rules = included[j].rules

\* C11: an @include, successful or failing, leaves the mixin stored in the
\* scope as it was (captured scope and body tokens) and leaves the caller's
\* scope as it was; including the same mixin with the same arguments and
\* super-selector again returns the same statements.
C11_IncludeLeavesMixinAndScope ==
    /\ []SameIncludesSameRules
    /\ [][mixin' = mixin /\ callerScope' = callerScope]_vars

\* C11 witness: `@mixin m($a, $x: true) { b { $x: ..; @media .. } color: .. }`
\* included twice as `m(v)`; the body declares $x, which the caller's scope
\* also holds.
C11_Witness ==
    /\ Len(included) = 2
    /\ included[1].args = included[2].args
    /\ included[1].super_selector = included[2].super_selector
    /\ "0" \in DOMAIN included[1].args
    /\ Len(mixin.args) = 2
    /\ "var" \in Kinds(mixin.body)
    /\ "x" \in DOMAIN callerScope
    /\ IsOk(included[2].rules)
    /\ Len(included[2].rules.v) = 2

----------------------------------------------------------------------------
(* Claims about the re-association of comparisons.                         *)

\* The tree of `l op2 r op o` under the precedence order: the comparison
\* binds tighter than an op2 of lower precedence.
Regrouped(self, op, o) ==
    IF precedence(self.op) < precedence(op)
    THEN BinaryOp(self.lhs, self.op, BinaryOp(self.rhs, op, o))
    ELSE BinaryOp(self, op, o)

\* C12: cmp with operator op on a left operand BinaryOp(l, op2, r) and a
\* right operand o: when op2 has lower precedence than op the result is
\* eval(BinaryOp(l, op2, eval(BinaryOp(r, op, o)))), otherwise it is
\* cmp(eval(BinaryOp(l, op2, r)), o); either way the result is what
\* evaluating the expression regrouped by precedence gives.
C12_CmpReassociates ==
    (opn = "cmp" /\ val.k = "BinaryOp") =>
        /\ IF precedence(val.op) < precedence(cop)
           THEN LET inner == call_eval(BinaryOp(val.rhs, cop, other))
                IN  IsOk(inner) => out = call_eval(BinaryOp(val.lhs, val.op, inner.v))
           ELSE LET e == call_eval(val)
                IN  IsOk(e) => out = call_cmp(e.v, other, cop)
        /\ out = call_eval(Regrouped(val, cop, other))

----------------------------------------------------------------------------
(* The declaration specification: the body capture of                      *)
(* Mixin::decl_from_tokens, one iteration of its loop per step.  toks is   *)
(* the stream where the loop starts, after the opening brace of the body   *)
(* and the whitespace that devour_whitespace skipped behind it, its tokens *)
(* [kind, pos] with pos counted from there.  decl holds the locals of the  *)
(* loop (nesting, body) and the SassResult once returned.                  *)

RawKinds == {"OpenCurlyBrace", "Interpolation", "CloseCurlyBrace", "Other"}

TokenStreams == UNION { { Tokens(ks) : ks \in [1..n -> RawKinds] } : n \in 0..MaxToks }

\* The match on tok.kind with the interpolation token not counted.
nesting_after_braces_only(nesting, kind) ==
    CASE kind = "OpenCurlyBrace" -> nesting + 1
      [] kind = "CloseCurlyBrace" -> nesting - 1
      [] OTHER -> nesting

\* The match on tok.kind of the capture loop.
nesting_after(nesting, kind) ==
    CASE kind \in {"OpenCurlyBrace", "Interpolation"} -> nesting + 1
      [] kind = "CloseCurlyBrace" -> nesting - 1
      [] OTHER -> nesting

\* Mixin::new
Mixin_new(scope, args, body) == [scope |-> scope, args |-> args, body |-> body]

InitDecl ==
    /\ InitValueIdle
    /\ mixin = [scope |-> <<>>, args |-> <<>>, body |-> <<>>]
    /\ callArgs = <<>>
    /\ superSel = <<>>
    /\ mopn = "idle"
    /\ mout = NoResult
    /\ callerScope \in {<<>>, [x \in {"x"} |-> True]}
    /\ included = <<>>
    /\ toks \in TokenStreams
    /\ decl = [pc |-> "loop", nesting |-> 1, body |-> <<>>, res |-> NoResult]

\* while nesting > 0 { if let Some(tok) = toks.next() { .. body.push(tok) } }
DeclPush ==
    /\ decl.pc = "loop"
    /\ decl.nesting > 0
    /\ toks # <<>>
    /\ toks' = Tail(toks)
    /\ decl' = [decl EXCEPT !.nesting = nesting_after(decl.nesting, Head(toks).kind),
                            !.body = Append(decl.body, Head(toks))]
    /\ UNCHANGED <<valueVars, mixin, callArgs, superSel, mopn, mout, includeVars>>

\* toks.next() is None: return Err("unexpected EOF (TODO: better message)")
DeclEof ==
    /\ decl.pc = "loop"
    /\ decl.nesting > 0
    /\ toks = <<>>
    /\ decl' = [decl EXCEPT !.pc = "done",
                            !.res = Err(<<"unexpected EOF (TODO: better message)">>)]
    /\ UNCHANGED <<valueVars, mixin, callArgs, superSel, mopn, mout, includeVars, toks>>

\* The loop is left: Ok((name, Mixin::new(scope.clone(), args, body)))
DeclReturn ==
    /\ decl.pc = "loop"
    /\ ~(decl.nesting > 0)
    /\ decl' = [decl EXCEPT !.pc = "done",
                            !.res = [tag |-> "ok", name |-> "m",
                                     mixin |-> Mixin_new(callerScope, <<>>, decl.body)]]
    /\ UNCHANGED <<valueVars, mixin, callArgs, superSel, mopn, mout, includeVars, toks>>

NextDecl == DeclPush \/ DeclEof \/ DeclReturn

SpecDecl == InitDecl /\ [][NextDecl]_vars

\* The depth after the first n tokens of a stream: 1 for the opening brace
\* of the body, one more for every `{` and every interpolation token, one
\* less for every `}`.
DepthAfter(stream, n) ==
    1 + Cardinality({i \in 1..n : stream[i].kind \in {"OpenCurlyBrace", "Interpolation"}})
      - Cardinality({i \in 1..n : stream[i].kind = "CloseCurlyBrace"})

=============================================================================
